---------------------------- MODULE Spec2Model ----------------------------
(***************************************************************************)
(* Trading journal: the local/remote reconciliation engine                 *)
(* (hasNewData, mergeStrategies) over collections of strategies, each      *)
(* owning a list of trades.                                                *)
(***************************************************************************)
EXTENDS Integers, Sequences, FiniteSets, TLC

(***************************************************************************)
(* Bounds of the model.                                                    *)
(***************************************************************************)
\* a collection holds at most MaxStrategies strategies
MaxStrategies == 2
\* strategy ids are 1..NumStrategyIds
NumStrategyIds == 3
\* trade ids are 1..MaxTrades
MaxTrades == 2

StrategyIds == 1..NumStrategyIds
TradeIds == 1..MaxTrades

(***************************************************************************)
(* Data model.  A trade's content other than its identity is opaque to the *)
(* reconciliation engine; the notes field stands for it, so that two       *)
(* copies of one trade id (one edited locally, one remotely) can differ.   *)
(***************************************************************************)
NotesValues == {"a", "b"}

Trade == [id : TradeIds, strategyId : StrategyIds, notes : NotesValues]

\* name and initialCapital, the editable metadata of a strategy
StrategyMeta ==
    { [name |-> "Swing", initialCapital |-> 1000],
      [name |-> "Scalp", initialCapital |-> 2000] }

\* the Strategy value with the given fields
Strategy(id, meta, trades) ==
    [id |-> id, name |-> meta.name, initialCapital |-> meta.initialCapital,
     trades |-> trades]

(***************************************************************************)
(* Helpers on sequences.                                                   *)
(***************************************************************************)
Range(s) == { s[i] : i \in DOMAIN s }

IsInjective(s) == \A i, j \in DOMAIN s : s[i] = s[j] => i = j

SeqsUpTo(S, n) == UNION { [1..k -> S] : k \in 0..n }

\* the ids of a list of trades (or of strategies)
IdsOf(s) == { s[i].id : i \in DOMAIN s }

\* every trade id of every strategy of a collection
AllTradeIds(coll) == UNION { IdsOf(coll[i].trades) : i \in DOMAIN coll }

(***************************************************************************)
(* The collections the application holds: strategy ids are unique          *)
(* (strategy-<timestamp>), trade ids are unique (trade-<timestamp>), and a *)
(* trade sits in the strategy its strategyId names.                        *)
(***************************************************************************)
\* lists of (id, notes) with distinct trade ids
TradeStubLists ==
    { s \in SeqsUpTo(TradeIds \X NotesValues, MaxTrades) :
        \A i, j \in DOMAIN s : s[i][1] = s[j][1] => i = j }

TradesOf(sid, stubs) ==
    [ k \in DOMAIN stubs |->
        [id |-> stubs[k][1], strategyId |-> sid, notes |-> stubs[k][2]] ]

StrategyOrders == { o \in SeqsUpTo(StrategyIds, MaxStrategies) : IsInjective(o) }

Collections ==
    UNION { UNION {
        { [ i \in DOMAIN o |-> Strategy(o[i], m[i], TradesOf(o[i], tl[i])) ] :
            tl \in { f \in [DOMAIN o -> TradeStubLists] :
                       \A i, j \in DOMAIN o :
                          i # j => { f[i][k][1] : k \in DOMAIN f[i] }
                                     \cap { f[j][k][1] : k \in DOMAIN f[j] } = {} } }
        : m \in [DOMAIN o -> StrategyMeta] }
      : o \in StrategyOrders }

(***************************************************************************)
(* hasNewData(local, remote)                                               *)
(***************************************************************************)
\* new Map(local.map(s => [s.id, s])): a later entry with the same id
\* replaces an earlier one
LocalStrategyMap(local) ==
    [ id \in IdsOf(local) |->
        local[CHOOSE i \in DOMAIN local :
                 /\ local[i].id = id
                 /\ \A j \in DOMAIN local : local[j].id = id => j <= i] ]

\* the Set filled by local.forEach(s => s.trades.forEach(...))
LocalTradeIds(local) == AllTradeIds(local)

\* variant: only an unknown strategy id counts as new, remote trades are
\* not looked at
RemoteStrategyIsNewIdOnly(local, remoteStrategy) ==
    remoteStrategy.id \notin DOMAIN LocalStrategyMap(local)

\* variant: a remote trade is looked up among the trades of the local
\* strategy with the same id instead of among all local trades
RemoteStrategyIsNewPerStrategy(local, remoteStrategy) ==
    \/ remoteStrategy.id \notin DOMAIN LocalStrategyMap(local)
    \/ \E k \in DOMAIN remoteStrategy.trades :
          remoteStrategy.trades[k].id
             \notin IdsOf(LocalStrategyMap(local)[remoteStrategy.id].trades)

\* the body of the loop over remote for one remote strategy: TRUE when the
\* loop returns true at this strategy
RemoteStrategyIsNew(local, remoteStrategy) ==
    \/ remoteStrategy.id \notin DOMAIN LocalStrategyMap(local)
    \/ \E k \in DOMAIN remoteStrategy.trades :
          remoteStrategy.trades[k].id \notin LocalTradeIds(local)

hasNewData(local, remote) ==
    IF Len(remote) > Len(local)
    THEN TRUE
    ELSE \E i \in DOMAIN remote : RemoteStrategyIsNew(local, remote[i])

(***************************************************************************)
(* mergeStrategies(local, remote)                                          *)
(***************************************************************************)
\* variant: the lookup never finds the trade
LocalStrategyHasTradeNever(localStrategy, remoteTrade) == FALSE

\* localTradeMapForStrategy.has(remoteTrade.id)
LocalStrategyHasTrade(localStrategy, remoteTrade) ==
    remoteTrade.id \in IdsOf(localStrategy.trades)

\* variant: the remote trade list replaces the local one
MergedTradesRemoteWins(localStrategy, remoteStrategy) == remoteStrategy.trades

\* mergedTrades: the local trades, then the remote trades the local strategy
\* does not hold
MergedTrades(localStrategy, remoteStrategy) ==
    localStrategy.trades
      \o SelectSeq(remoteStrategy.trades,
                   LAMBDA t : ~LocalStrategyHasTrade(localStrategy, t))

\* variant: the remote strategy is spread instead of the local one
MergedStrategyRemoteMeta(localStrategy, remoteStrategy) ==
    [remoteStrategy EXCEPT !.trades = MergedTrades(localStrategy, remoteStrategy)]

\* { ...localStrategy, trades: mergedTrades }
MergedStrategy(localStrategy, remoteStrategy) ==
    [localStrategy EXCEPT !.trades = MergedTrades(localStrategy, remoteStrategy)]

\* one iteration of the loop over remote: the entry pushed for remoteStrategy
ProcessRemoteStrategy(local, remoteStrategy) ==
    IF remoteStrategy.id \notin DOMAIN LocalStrategyMap(local)
    THEN remoteStrategy
    ELSE MergedStrategy(LocalStrategyMap(local)[remoteStrategy.id], remoteStrategy)

\* processedStrategyIds after the loop over remote
ProcessedStrategyIds(remote) == IdsOf(remote)

\* variant: every local strategy is appended, processed or not
LocalOnlyStrategiesUnfiltered(local, remote) == local

\* the second loop: local strategies whose id was not processed
LocalOnlyStrategies(local, remote) ==
    SelectSeq(local, LAMBDA s : s.id \notin ProcessedStrategyIds(remote))

\* variant: the loop over the local-only strategies is missing
mergeStrategiesRemoteLoopOnly(local, remote) ==
    [ i \in DOMAIN remote |-> ProcessRemoteStrategy(local, remote[i]) ]

\* variant: the local-only strategies are pushed before the remote ones
mergeStrategiesLocalFirst(local, remote) ==
    LocalOnlyStrategies(local, remote)
      \o [ i \in DOMAIN remote |-> ProcessRemoteStrategy(local, remote[i]) ]

mergeStrategies(local, remote) ==
    [ i \in DOMAIN remote |-> ProcessRemoteStrategy(local, remote[i]) ]
      \o LocalOnlyStrategies(local, remote)

(***************************************************************************)
(* The two functions on collections in which a strategy may come without   *)
(* a trades array (a document read from the store is not validated).       *)
(* hasTradesArray tells whether the strategy carries one; reading .trades  *)
(* of a strategy that does not yields undefined, and iterating undefined   *)
(* raises a TypeError.                                                     *)
(***************************************************************************)
TradesArrayMissing(strategy) == ~strategy.hasTradesArray

Returned(value) == [thrown |-> "none", value |-> value]
Raised(value) == [thrown |-> "TypeError", value |-> value]

\* the loop over remote from position i on (lines 19-33)
RECURSIVE RemoteLoopOutcome(_, _, _)
RemoteLoopOutcome(local, remote, i) ==
    IF i > Len(remote) THEN Returned(FALSE)
    ELSE IF remote[i].id \notin DOMAIN LocalStrategyMap(local) THEN Returned(TRUE)
    ELSE IF TradesArrayMissing(remote[i]) THEN Raised(FALSE)
    ELSE IF \E k \in DOMAIN remote[i].trades :
               remote[i].trades[k].id \notin LocalTradeIds(local)
         THEN Returned(TRUE)
         ELSE RemoteLoopOutcome(local, remote, i + 1)

\* hasNewData with its exceptions: line 9 returns before any trades array
\* is read, line 16 reads the trades of every local strategy
hasNewDataOutcome(local, remote) ==
    IF Len(remote) > Len(local) THEN Returned(TRUE)
    ELSE IF \E i \in DOMAIN local : TradesArrayMissing(local[i]) THEN Raised(FALSE)
    ELSE RemoteLoopOutcome(local, remote, 1)

\* mergeStrategies with its exceptions: line 49 reads the trades of every
\* local strategy, line 68 those of every remote strategy matched locally
mergeStrategiesOutcome(local, remote) ==
    IF \E i \in DOMAIN local : TradesArrayMissing(local[i]) THEN Raised(<<>>)
    ELSE IF \E i \in DOMAIN remote :
               /\ remote[i].id \in DOMAIN LocalStrategyMap(local)
               /\ TradesArrayMissing(remote[i])
         THEN Raised(<<>>)
         ELSE Returned(mergeStrategies(local, remote))

\* the collections above, one edit of notes and metadata, with the trades
\* array of any strategy without trades possibly missing
LooseCollections ==
    UNION {
        { [ i \in DOMAIN c |->
              [ id |-> c[i].id, name |-> c[i].name,
                initialCapital |-> c[i].initialCapital, trades |-> c[i].trades,
                hasTradesArray |-> i \notin missing ] ] :
            missing \in SUBSET { i \in DOMAIN c : c[i].trades = <<>> } } :
        c \in { d \in Collections :
                  \A i \in DOMAIN d :
                      /\ d[i].name = "Swing"
                      /\ \A k \in DOMAIN d[i].trades : d[i].trades[k].notes = "a" } }

(***************************************************************************)
(* Numbers of the trade stats engine.  Prices and quantities are integers  *)
(* here; the quotients the engine forms (average prices, R-multiple) are   *)
(* exact rationals <<numerator, denominator>> in lowest terms with a       *)
(* positive denominator, so that equal numbers are equal values.           *)
(***************************************************************************)
Abs(n) == IF n < 0 THEN -n ELSE n

RECURSIVE GCD(_, _)
GCD(a, b) == IF b = 0 THEN a ELSE GCD(b, a % b)

\* the number n / d.  A division by zero yields, as in JavaScript, Infinity
\* (<<1, 0>>), -Infinity (<<-1, 0>>) or NaN (<<0, 0>>): the only values
\* with denominator 0.
Rat(n, d) ==
    IF d = 0
    THEN <<IF n > 0 THEN 1 ELSE IF n < 0 THEN -1 ELSE 0, 0>>
    ELSE LET g == GCD(Abs(n), Abs(d))
             sgn == IF d < 0 THEN -1 ELSE 1
         IN  <<(sgn * n) \div g, (sgn * d) \div g>>

\* a finite number: neither Infinity nor NaN
RFinite(a) == a[2] # 0

RInt(n) == <<n, 1>>
RZero == RInt(0)
RAdd(a, b) == Rat(a[1] * b[2] + b[1] * a[2], a[2] * b[2])
RSub(a, b) == Rat(a[1] * b[2] - b[1] * a[2], a[2] * b[2])
RMul(a, b) == Rat(a[1] * b[1], a[2] * b[2])
\* a / b
RDiv(a, b) == Rat(a[1] * b[2], a[2] * b[1])
RLess(a, b) == a[1] * b[2] < b[1] * a[2]
RLeq(a, b) == a[1] * b[2] <= b[1] * a[2]
RPositive(a) == a[1] > 0

(***************************************************************************)
(* The execution log of one trade, as getTradeStats reads it.  An optional *)
(* field (exitPrice?: number) is a sequence of length 0 (undefined) or 1.  *)
(***************************************************************************)
\* at most MaxPyramids pyramid entries
MaxPyramids == 1
\* at most MaxPartialExits partial exits
MaxPartialExits == 2
\* at most MaxTrailingStops trailing stops
MaxTrailingStops == 2

TradeStatus == {"open", "win", "loss", "breakeven"}

EntryPriceValues == {0, 10, 20}
QuantityValues == {0, 1, 2}
InitialSlValues == {0, 8, 30}
ExitPriceValues == {<<>>, <<0>>, <<16>>}
PyramidEntry == { [price |-> 16, quantity |-> 1] }
PartialExit == { [price |-> 16, quantity |-> 1], [price |-> 8, quantity |-> 2] }
TrailingStop == { [price |-> 0], [price |-> 6], [price |-> 15] }

TradeLogs ==
    [ entryPrice : EntryPriceValues,
      quantity : QuantityValues,
      initialSl : InitialSlValues,
      exitPrice : ExitPriceValues,
      status : TradeStatus,
      pyramids : SeqsUpTo(PyramidEntry, MaxPyramids),
      trailingStops : SeqsUpTo(TrailingStop, MaxTrailingStops),
      partialExits : SeqsUpTo(PartialExit, MaxPartialExits) ]

\* JavaScript truthiness of an optional number: set and not 0
Truthy(opt) == opt # <<>> /\ opt[1] # 0

(***************************************************************************)
(* getEffectiveStopLoss(trade)                                             *)
(***************************************************************************)
\* trade.trailingStops.map(ts => ts.price).filter(price => price > 0)
TrailingStopPrices(trade) ==
    { p \in { trade.trailingStops[i].price : i \in DOMAIN trade.trailingStops } :
        p > 0 }

\* Math.max(...prices) of a non-empty set
MaxOf(S) == CHOOSE m \in S : \A x \in S : x <= m

\* variant: a trailing stop below the initial stop is not used
getEffectiveStopLossNeverBelowInitial(trade) ==
    IF Len(trade.trailingStops) > 0 /\ TrailingStopPrices(trade) # {}
    THEN MaxOf(TrailingStopPrices(trade) \cup {trade.initialSl})
    ELSE trade.initialSl

getEffectiveStopLoss(trade) ==
    IF Len(trade.trailingStops) > 0 /\ TrailingStopPrices(trade) # {}
    THEN MaxOf(TrailingStopPrices(trade))
    ELSE trade.initialSl

(***************************************************************************)
(* getTradeStats(trade)                                                    *)
(***************************************************************************)
\* entries.reduce((sum, e) => sum + e.price * e.quantity, 0)
RECURSIVE SumPriceTimesQuantity(_)
SumPriceTimesQuantity(entries) ==
    IF entries = <<>> THEN 0
    ELSE entries[1].price * entries[1].quantity + SumPriceTimesQuantity(Tail(entries))

\* entries.reduce((sum, e) => sum + e.quantity, 0)
RECURSIVE SumQuantity(_)
SumQuantity(entries) ==
    IF entries = <<>> THEN 0
    ELSE entries[1].quantity + SumQuantity(Tail(entries))

InitialInvestment(trade) == trade.entryPrice * trade.quantity

TotalInvested(trade) == InitialInvestment(trade) + SumPriceTimesQuantity(trade.pyramids)

TotalBoughtQty(trade) == trade.quantity + SumQuantity(trade.pyramids)

AvgEntryPrice(trade) ==
    IF TotalBoughtQty(trade) > 0
    THEN Rat(TotalInvested(trade), TotalBoughtQty(trade))
    ELSE RZero

\* the base values from the partial exits (lines 79-80)
PartialProceeds(trade) == SumPriceTimesQuantity(trade.partialExits)
PartialSoldQty(trade) == SumQuantity(trade.partialExits)

\* line 82: computed from the partial exits, before the exitPrice override
CurrentHoldingsQty(trade) == TotalBoughtQty(trade) - PartialSoldQty(trade)

\* the condition of case 1 (line 86)
ClosedViaExitPrice(trade) ==
    /\ trade.status # "open"
    /\ Truthy(trade.exitPrice)
    /\ Len(trade.partialExits) = 0

TotalSoldQty(trade) ==
    IF ClosedViaExitPrice(trade) THEN TotalBoughtQty(trade) ELSE PartialSoldQty(trade)

\* variant: the exit price is applied to the initial lot only, pyramids left out
TotalProceedsInitialLotOnly(trade) ==
    IF ClosedViaExitPrice(trade)
    THEN trade.exitPrice[1] * trade.quantity
    ELSE PartialProceeds(trade)

TotalProceeds(trade) ==
    IF ClosedViaExitPrice(trade)
    THEN trade.exitPrice[1] * TotalBoughtQty(trade)
    ELSE PartialProceeds(trade)

\* variant: case 2 is missing, only the stored status closes a trade
IsClosedStatusOnly(trade) == trade.status # "open"

\* variant: case 2 without the totalBoughtQty > 0 guard
IsClosedWithoutBoughtGuard(trade) ==
    \/ trade.status # "open"
    \/ CurrentHoldingsQty(trade) <= 0

\* isClosed after case 2 (lines 83, 92-94)
IsClosed(trade) ==
    \/ trade.status # "open"
    \/ (TotalBoughtQty(trade) > 0 /\ CurrentHoldingsQty(trade) <= 0)

\* variant: the quotient is formed for every closed trade
AvgExitPriceWhenClosed(trade) ==
    IF IsClosed(trade) \/ TotalSoldQty(trade) > 0
    THEN Rat(TotalProceeds(trade), TotalSoldQty(trade))
    ELSE RZero

AvgExitPrice(trade) ==
    IF TotalSoldQty(trade) > 0
    THEN Rat(TotalProceeds(trade), TotalSoldQty(trade))
    ELSE RZero

\* variant: the full-position P/L is reported whether closed or not
RealizedPLFullPosition(trade) ==
    RInt(TotalProceeds(trade) - TotalInvested(trade))

\* lines 98-106
RealizedPL(trade) ==
    IF IsClosed(trade)
    THEN RInt(TotalProceeds(trade) - TotalInvested(trade))
    ELSE RSub(RInt(TotalProceeds(trade)),
              RMul(AvgEntryPrice(trade), RInt(TotalSoldQty(trade))))

CurrentValue(trade) == RMul(RInt(CurrentHoldingsQty(trade)), AvgEntryPrice(trade))

TotalRiskValue(trade) ==
    RMul(RInt(CurrentHoldingsQty(trade)),
         RSub(AvgEntryPrice(trade), RInt(getEffectiveStopLoss(trade))))

\* variant: the initial risk is taken against the effective stop
InitialTotalRiskEffectiveStop(trade) ==
    IF TotalBoughtQty(trade) > 0
    THEN RMul(RInt(TotalBoughtQty(trade)),
              RSub(AvgEntryPrice(trade), RInt(getEffectiveStopLoss(trade))))
    ELSE RZero

InitialTotalRisk(trade) ==
    IF TotalBoughtQty(trade) > 0
    THEN RMul(RInt(TotalBoughtQty(trade)),
              RSub(AvgEntryPrice(trade), RInt(trade.initialSl)))
    ELSE RZero

\* variant: the R-multiple is computed for open trades too
RMultipleIgnoringClosure(trade) ==
    IF RPositive(InitialTotalRisk(trade))
    THEN RDiv(RealizedPL(trade), InitialTotalRisk(trade))
    ELSE RZero

RMultiple(trade) ==
    IF IsClosed(trade) /\ RPositive(InitialTotalRisk(trade))
    THEN RDiv(RealizedPL(trade), InitialTotalRisk(trade))
    ELSE RZero

getTradeStats(trade) ==
    [ totalBoughtQty |-> TotalBoughtQty(trade),
      totalSoldQty |-> TotalSoldQty(trade),
      currentHoldingsQty |-> CurrentHoldingsQty(trade),
      totalInvested |-> TotalInvested(trade),
      avgEntryPrice |-> AvgEntryPrice(trade),
      totalProceeds |-> TotalProceeds(trade),
      avgExitPrice |-> AvgExitPrice(trade),
      realizedPL |-> RealizedPL(trade),
      isClosed |-> IsClosed(trade),
      currentValue |-> CurrentValue(trade),
      totalRiskValue |-> TotalRiskValue(trade),
      initialTotalRisk |-> InitialTotalRisk(trade),
      rMultiple |-> RMultiple(trade) ]

(***************************************************************************)
(* calculateTradeStatus(stats, initialInvestment)                          *)
(***************************************************************************)
\* initialInvestment > 0 ? (stats.realizedPL / initialInvestment) * 100 : 0
PlPercentage(stats, initialInvestment) ==
    IF initialInvestment > 0
    THEN RMul(RDiv(stats.realizedPL, RInt(initialInvestment)), RInt(100))
    ELSE RZero

\* the breakeven band of +-0.5 percent
BreakevenBand == Rat(1, 2)

\* variant: the band excludes its two boundaries
calculateTradeStatusStrictBand(stats, initialInvestment) ==
    IF ~stats.isClosed THEN "open"
    ELSE IF /\ RLess(RSub(RZero, BreakevenBand), PlPercentage(stats, initialInvestment))
            /\ RLess(PlPercentage(stats, initialInvestment), BreakevenBand)
         THEN "breakeven"
         ELSE IF RPositive(stats.realizedPL) THEN "win" ELSE "loss"

calculateTradeStatus(stats, initialInvestment) ==
    IF ~stats.isClosed THEN "open"
    ELSE IF /\ RLeq(RSub(RZero, BreakevenBand), PlPercentage(stats, initialInvestment))
            /\ RLeq(PlPercentage(stats, initialInvestment), BreakevenBand)
         THEN "breakeven"
         ELSE IF RPositive(stats.realizedPL) THEN "win" ELSE "loss"

(***************************************************************************)
(* getTradeStats on a trade of which some fields are absent (a document    *)
(* read from the store is not validated).  trade.missing names the absent  *)
(* fields; the record holds <<>> or 0 in their place.                      *)
(***************************************************************************)
\* the fields that may be absent from the given execution log
MissableFields(t) ==
    { f \in {"pyramids", "partialExits", "trailingStops"} : t[f] = <<>> }
        \cup { f \in {"initialSl"} : t[f] = 0 }

WithMissing(t, m) ==
    [ entryPrice |-> t.entryPrice, quantity |-> t.quantity,
      initialSl |-> t.initialSl, exitPrice |-> t.exitPrice,
      status |-> t.status, pyramids |-> t.pyramids,
      trailingStops |-> t.trailingStops, partialExits |-> t.partialExits,
      missing |-> m ]

\* the given execution logs, each with every choice of absent fields
IncompleteTrades(logs) ==
    { WithMissing(c[1], c[2]) :
        c \in { d \in logs \X SUBSET {"pyramids", "partialExits",
                                       "trailingStops", "initialSl"} :
                   d[2] \subseteq MissableFields(d[1]) } }

\* the value of an arithmetic expression with an undefined operand
NaN == <<0, 0>>

\* line 71 reads trade.pyramids.reduce: a TypeError when pyramids is
\* absent.  (trade.partialExits || []) and the trade.trailingStops && test
\* take an absent array as empty, trade.initialSl || 0 takes an absent stop
\* as 0; line 115 subtracts trade.initialSl as it is, and NaN > 0 is false
\* in line 116.
getTradeStatsOutcome(t) ==
    IF "pyramids" \in t.missing
    THEN Raised(<<>>)
    ELSE Returned(
           [ getTradeStats(t) EXCEPT
               !.initialTotalRisk =
                   IF "initialSl" \in t.missing /\ TotalBoughtQty(t) > 0
                   THEN NaN ELSE @,
               !.rMultiple =
                   IF "initialSl" \in t.missing /\ TotalBoughtQty(t) > 0
                   THEN RZero ELSE @ ])

(***************************************************************************)
(* The trade detail page.  A stored trade is an execution log with a       *)
(* status, an optional closeDate (<<>> when absent) and the optional flag  *)
(* statusManuallySet ("undefined" when absent).  Its exitPrice is <<>>,    *)
(* <<n>> for the whole number n, or <<n, d>> for the fraction n / d that   *)
(* handleSubmit stores as the average of itemised exits; getTradeStats     *)
(* multiplies by exitPrice only when there are no partial exits.           *)
(***************************************************************************)
CloseDateValues == { <<>>, <<"past">> }

StatusManuallySetValues == { "undefined", "false", "true" }

StoredTrade(t, closeDate, manual) ==
    [ entryPrice |-> t.entryPrice, quantity |-> t.quantity,
      initialSl |-> t.initialSl, exitPrice |-> t.exitPrice,
      status |-> t.status, pyramids |-> t.pyramids,
      trailingStops |-> t.trailingStops, partialExits |-> t.partialExits,
      closeDate |-> closeDate, statusManuallySet |-> manual ]

\* the stored trades over the given execution logs
StoredTrades(logs) ==
    { StoredTrade(c[1], c[2], c[3]) :
        c \in logs \X CloseDateValues \X StatusManuallySetValues }

\* the logs of the detail page: the stop fields do not bear on the status
DetailLogs ==
    [ entryPrice : {0, 10},
      quantity : QuantityValues,
      initialSl : {0},
      exitPrice : ExitPriceValues,
      status : TradeStatus,
      pyramids : SeqsUpTo(PyramidEntry, MaxPyramids),
      trailingStops : {<<>>},
      partialExits : SeqsUpTo(PartialExit, MaxPartialExits) ]

\* calculateTradeStatus(currentStats, trade.entryPrice * trade.quantity)
CalculatedStatus(t) ==
    calculateTradeStatus(getTradeStats(t), t.entryPrice * t.quantity)

NeedsStatusUpdate(t) == CalculatedStatus(t) # t.status

\* variant: a closed trade without closeDate is left as it is
NeedsCloseDateUpdateNever(t) == FALSE

NeedsCloseDateUpdate(t) == getTradeStats(t).isClosed /\ t.closeDate = <<>>

\* variant: the closeDate is not stamped
UpdatedTradeWithoutCloseDate(t) ==
    [ t EXCEPT !.status = CalculatedStatus(t),
               !.statusManuallySet = "false" ]

\* { ...trade, status, statusManuallySet: false }, then the closeDate set
\* (lines 126-128) or cleared (lines 131-133)
UpdatedTrade(t) ==
    [ t EXCEPT !.status = CalculatedStatus(t),
               !.statusManuallySet = "false",
               !.closeDate =
                   IF CalculatedStatus(t) = "open" /\ t.closeDate # <<>>
                   THEN <<>>
                   ELSE IF getTradeStats(t).isClosed /\ t.closeDate = <<>>
                        THEN <<"now">>
                        ELSE @ ]

\* variant: the manual flag is not looked at
StatusRecalculationIgnoringOverride(t) ==
    IF NeedsStatusUpdate(t) \/ NeedsCloseDateUpdate(t)
    THEN [saved |-> TRUE, trade |-> UpdatedTrade(t)]
    ELSE [saved |-> FALSE, trade |-> t]

\* the status recalculation effect: whether it calls onSaveTrade, and the
\* trade stored afterwards (handleSaveTrade replaces the trade of that id)
StatusRecalculation(t) ==
    IF t.statusManuallySet # "true"
          /\ (NeedsStatusUpdate(t) \/ NeedsCloseDateUpdate(t))
    THEN [saved |-> TRUE, trade |-> UpdatedTrade(t)]
    ELSE [saved |-> FALSE, trade |-> t]

(***************************************************************************)
(* The trade form.                                                         *)
(***************************************************************************)
\* what the user can have typed into the form
FormInputs ==
    [ entryPrice : {0, 10},
      quantity : QuantityValues,
      initialSl : {0},
      exitPrice : {<<>>, <<16>>},
      status : TradeStatus,
      pyramids : SeqsUpTo(PyramidEntry, MaxPyramids),
      trailingStops : {<<>>},
      partialExits : SeqsUpTo(PartialExit, MaxPartialExits) ]

validateForm(f) ==
    /\ f.entryPrice > 0
    /\ f.quantity > 0
    /\ f.initialSl > 0 => f.initialSl < f.entryPrice
    /\ (f.status # "open" /\ f.partialExits = <<>>) =>
           (f.exitPrice # <<>> /\ f.exitPrice[1] > 0)
    /\ \A i \in DOMAIN f.pyramids :
           /\ f.pyramids[i].price > 0
           /\ f.pyramids[i].quantity > 0
           /\ f.pyramids[i].price # f.entryPrice
    /\ \A i \in DOMAIN f.partialExits :
           /\ f.partialExits[i].price > 0
           /\ f.partialExits[i].quantity > 0
    /\ SumQuantity(f.partialExits) <= TotalBoughtQty(f)
    /\ \A i \in DOMAIN f.trailingStops :
           /\ f.trailingStops[i].price > 0
           /\ f.initialSl > 0 => f.trailingStops[i].price # f.initialSl

\* the breakeven band of +-1.5 percent applied at save time
SaveBreakevenBand == Rat(3, 2)

\* stats.totalInvested > 0 ? (stats.realizedPL / stats.totalInvested) * 100 : 0
SavePlPercentage(t) ==
    IF TotalInvested(t) > 0
    THEN RMul(RDiv(RealizedPL(t), RInt(TotalInvested(t))), RInt(100))
    ELSE RZero

\* a number as an exitPrice field
ExitPriceOf(r) == IF r[2] = 1 THEN <<r[1]>> ELSE r

\* fullTradeObject before the status is derived: the form's fields, and the
\* fields of the existing trade the form does not show
FullTradeObject(f, existing) ==
    StoredTrade([f EXCEPT !.exitPrice = IF Truthy(f.exitPrice) THEN @ ELSE <<>>],
                existing.closeDate, existing.statusManuallySet)

\* the trade handleSubmit hands to onSave
handleSubmit(f, existing) ==
    LET full == FullTradeObject(f, existing)
    IN  IF IsClosed(full)
        THEN [ full EXCEPT
                 !.status =
                     IF /\ RLeq(RSub(RZero, SaveBreakevenBand), SavePlPercentage(full))
                        /\ RLeq(SavePlPercentage(full), SaveBreakevenBand)
                     THEN "breakeven"
                     ELSE IF RPositive(RealizedPL(full)) THEN "win" ELSE "loss",
                 !.exitPrice =
                     IF RPositive(AvgExitPrice(full))
                     THEN ExitPriceOf(AvgExitPrice(full)) ELSE @ ]
        ELSE [ full EXCEPT !.status = "open", !.exitPrice = <<>> ]

(***************************************************************************)
(* The application's strategy collection: the handlers of one render read  *)
(* the render's strategies, and saveStrategies hands the new collection to *)
(* setStrategies.  The write to Firestore that follows does not change the *)
(* collection the application holds.                                       *)
(***************************************************************************)
\* handler calls followed between two renders
MaxIssued == 2

\* the user documents getDoc can return at sign-in: none, one without a
\* strategies field, or one holding a collection
RemoteCollections == { c \in Collections : Len(c) <= 1 }

UserDocs ==
    { [exists |-> FALSE, strategies |-> <<>>],
      [exists |-> TRUE, strategies |-> <<>>] }
      \cup { [exists |-> TRUE, strategies |-> <<c>>] : c \in RemoteCollections }

\* the collection the sign-in callback hands to setStrategies, if it does:
\* if(data.strategies) setStrategies(data.strategies), an array being truthy
SignInSets(local, userDoc) ==
    IF userDoc.exists /\ userDoc.strategies # <<>>
    THEN <<userDoc.strategies[1]>>
    ELSE <<>>

\* newTrades of handleSaveTrade: the trade replaces the first trade of its
\* id, or is pushed
SavedTrades(trades, tradeToSave) ==
    IF \E k \in DOMAIN trades : trades[k].id = tradeToSave.id
    THEN [ trades EXCEPT
             ![CHOOSE k \in DOMAIN trades :
                  /\ trades[k].id = tradeToSave.id
                  /\ \A j \in DOMAIN trades : trades[j].id = tradeToSave.id => k <= j]
                 = tradeToSave ]
    ELSE Append(trades, tradeToSave)

\* newStrategies of handleSaveTrade, computed from the collection the
\* handler closes over
handleSaveTrade(coll, tradeToSave) ==
    [ i \in DOMAIN coll |->
        IF coll[i].id = tradeToSave.strategyId
        THEN [coll[i] EXCEPT !.trades = SavedTrades(@, tradeToSave)]
        ELSE coll[i] ]

\* strategy.trades.filter(t => t.id !== trade.id)
WithoutTrade(trades, tr) == SelectSeq(trades, LAMBDA t : t.id # tr.id)

\* handleMoveTrade: nothing when the trade's strategy is not found, else
\* the collection handed to saveStrategies
handleMoveTrade(coll, tr, targetStrategyId) ==
    IF ~\E i \in DOMAIN coll : coll[i].id = tr.strategyId
    THEN <<>>
    ELSE << [ i \in DOMAIN coll |->
                IF coll[i].id = tr.strategyId
                THEN [coll[i] EXCEPT !.trades = WithoutTrade(@, tr)]
                ELSE IF coll[i].id = targetStrategyId
                     THEN [coll[i] EXCEPT !.trades =
                              Append(@, [tr EXCEPT !.strategyId = targetStrategyId])]
                     ELSE coll[i] ] >>

\* the trades a collection holds
StoredIn(coll) == UNION { Range(coll[i].trades) : i \in DOMAIN coll }

\* a handler call as recorded in issued
IssuedCall(op, tr, target, userDoc) ==
    [op |-> op, trade |-> tr, target |-> target, userDoc |-> userDoc]

(***************************************************************************)
(* State: the two inputs, and the results of the calls made so far.        *)
(***************************************************************************)
VARIABLES
    localStrategies,   \* the local collection
    remoteStrategies,  \* the remote snapshot
    newData,           \* result of hasNewData(local, remote)
    merged,            \* result of mergeStrategies(local, remote)
    remerged,          \* result of mergeStrategies(merged, remote)
    selfMerged,        \* result of mergeStrategies(local, local)
    pc,                \* which calls have been made
    thrown,            \* the exception a call has raised, "none" if none
    trade,             \* the trade handed to getTradeStats
    stats,             \* result of getTradeStats(trade)
    initialInvestment, \* second argument of calculateTradeStatus
    calculatedStatus,  \* result of calculateTradeStatus
    loaded,            \* the trade as loaded or last submitted by the form
    saved,             \* the trades the status effect has handed to onSaveTrade
    edits,             \* number of form submissions so far
    strategies,        \* the collection the current render's handlers read
    nextStrategies,    \* the collection last handed to setStrategies, if any
    issued,            \* the handler calls made since the last render
    previous           \* the collection of the render before

mergeVars == <<localStrategies, remoteStrategies, newData, merged, remerged,
               selfMerged, thrown>>

statsVars == <<trade, stats, initialInvestment, calculatedStatus>>

detailVars == <<loaded, saved, edits>>

appVars == <<strategies, nextStrategies, issued, previous>>

uiVars == <<detailVars, appVars>>

vars == <<mergeVars, statsVars, pc, uiVars>>

\* the reconciliation engine has not been called
MergeIdle ==
    /\ localStrategies = <<>>
    /\ remoteStrategies = <<>>
    /\ newData = FALSE
    /\ merged = <<>>
    /\ remerged = <<>>
    /\ selfMerged = <<>>
    /\ thrown = "none"

\* the stats engine has not been called
StatsIdle ==
    /\ trade = <<>>
    /\ stats = <<>>
    /\ initialInvestment = 0
    /\ calculatedStatus = "none"

\* no trade detail page is shown
DetailIdle ==
    /\ loaded = <<>>
    /\ saved = <<>>
    /\ edits = 0

\* the application's collection is not modelled
AppIdle ==
    /\ strategies = <<>>
    /\ nextStrategies = <<>>
    /\ issued = <<>>
    /\ previous = <<>>

UiIdle == DetailIdle /\ AppIdle

Init ==
    /\ localStrategies \in Collections
    /\ remoteStrategies \in Collections
    /\ newData = FALSE
    /\ merged = <<>>
    /\ remerged = <<>>
    /\ selfMerged = <<>>
    /\ thrown = "none"
    /\ StatsIdle
    /\ UiIdle
    /\ pc = "start"

CallHasNewData ==
    /\ pc = "start"
    /\ newData' = hasNewData(localStrategies, remoteStrategies)
    /\ pc' = "checked"
    /\ UNCHANGED <<localStrategies, remoteStrategies, merged, remerged, selfMerged>>
    /\ UNCHANGED <<thrown, statsVars>>
    /\ UNCHANGED uiVars

CallMergeStrategies ==
    /\ pc = "checked"
    /\ merged' = mergeStrategies(localStrategies, remoteStrategies)
    /\ pc' = "merged"
    /\ UNCHANGED <<localStrategies, remoteStrategies, newData, remerged, selfMerged>>
    /\ UNCHANGED <<thrown, statsVars>>
    /\ UNCHANGED uiVars

CallMergeAgain ==
    /\ pc = "merged"
    /\ remerged' = mergeStrategies(merged, remoteStrategies)
    /\ selfMerged' = mergeStrategies(localStrategies, localStrategies)
    /\ pc' = "done"
    /\ UNCHANGED <<localStrategies, remoteStrategies, newData, merged>>
    /\ UNCHANGED <<thrown, statsVars>>
    /\ UNCHANGED uiVars

Next ==
    \/ CallHasNewData
    \/ CallMergeStrategies
    \/ CallMergeAgain

Spec == Init /\ [][Next]_vars

(***************************************************************************)
(* The reconciliation engine applied to collections with missing trades    *)
(* arrays.                                                                 *)
(***************************************************************************)
InitLoose ==
    /\ localStrategies \in LooseCollections
    /\ remoteStrategies \in LooseCollections
    /\ newData = FALSE
    /\ merged = <<>>
    /\ remerged = <<>>
    /\ selfMerged = <<>>
    /\ thrown = "none"
    /\ StatsIdle
    /\ UiIdle
    /\ pc = "start"

CallHasNewDataLoose ==
    /\ pc = "start"
    /\ newData' = hasNewDataOutcome(localStrategies, remoteStrategies).value
    /\ thrown' = hasNewDataOutcome(localStrategies, remoteStrategies).thrown
    /\ pc' = "checked"
    /\ UNCHANGED <<localStrategies, remoteStrategies, merged, remerged, selfMerged>>
    /\ UNCHANGED statsVars
    /\ UNCHANGED uiVars

CallMergeStrategiesLoose ==
    /\ pc = "checked"
    /\ merged' = mergeStrategiesOutcome(localStrategies, remoteStrategies).value
    /\ thrown' = mergeStrategiesOutcome(localStrategies, remoteStrategies).thrown
    /\ pc' = "merged"
    /\ UNCHANGED <<localStrategies, remoteStrategies, newData, remerged, selfMerged>>
    /\ UNCHANGED statsVars
    /\ UNCHANGED uiVars

NextLoose ==
    \/ CallHasNewDataLoose
    \/ CallMergeStrategiesLoose

SpecLoose == InitLoose /\ [][NextLoose]_vars

(***************************************************************************)
(* The stats engine applied to one trade.                                  *)
(***************************************************************************)
InitStats ==
    /\ trade \in TradeLogs
    /\ stats = <<>>
    /\ initialInvestment = 0
    /\ calculatedStatus = "none"
    /\ MergeIdle
    /\ UiIdle
    /\ pc = "start"

CallGetTradeStats ==
    /\ pc = "start"
    /\ stats' = getTradeStats(trade)
    /\ pc' = "stats"
    /\ UNCHANGED <<trade, initialInvestment, calculatedStatus, mergeVars>>
    /\ UNCHANGED uiVars

NextStats == CallGetTradeStats

SpecStats == InitStats /\ [][NextStats]_vars

(***************************************************************************)
(* calculateTradeStatus applied to a stats record and an investment.       *)
(***************************************************************************)
\* realized P/L runs over -MaxRealizedPL..MaxRealizedPL
MaxRealizedPL == 4

InitialInvestmentValues == {-200, 0, 100, 200, 400, 800}

\* a TradeStats value of which only isClosed and realizedPL are set
StatsOf(closed, pl) ==
    [ totalBoughtQty |-> 0, totalSoldQty |-> 0, currentHoldingsQty |-> 0,
      totalInvested |-> 0, avgEntryPrice |-> RZero, totalProceeds |-> 0,
      avgExitPrice |-> RZero, realizedPL |-> RInt(pl), isClosed |-> closed,
      currentValue |-> RZero, totalRiskValue |-> RZero,
      initialTotalRisk |-> RZero, rMultiple |-> RZero ]

InitStatus ==
    /\ stats \in { StatsOf(closed, pl) :
                     closed \in BOOLEAN, pl \in (-MaxRealizedPL)..MaxRealizedPL }
    /\ initialInvestment \in InitialInvestmentValues
    /\ trade = <<>>
    /\ calculatedStatus = "none"
    /\ MergeIdle
    /\ UiIdle
    /\ pc = "start"

CallCalculateTradeStatus ==
    /\ pc = "start"
    /\ calculatedStatus' = calculateTradeStatus(stats, initialInvestment)
    /\ pc' = "status"
    /\ UNCHANGED <<trade, stats, initialInvestment, mergeVars>>
    /\ UNCHANGED uiVars

NextStatus == CallCalculateTradeStatus

SpecStatus == InitStatus /\ [][NextStatus]_vars

(***************************************************************************)
(* The stats engine applied to a trade with absent fields.                 *)
(***************************************************************************)
InitIncomplete ==
    /\ trade \in IncompleteTrades({ l \in TradeLogs : Len(l.trailingStops) <= 1 })
    /\ stats = <<>>
    /\ initialInvestment = 0
    /\ calculatedStatus = "none"
    /\ MergeIdle
    /\ UiIdle
    /\ pc = "start"

CallGetTradeStatsIncomplete ==
    /\ pc = "start"
    /\ stats' = getTradeStatsOutcome(trade).value
    /\ thrown' = getTradeStatsOutcome(trade).thrown
    /\ pc' = "stats"
    /\ UNCHANGED <<trade, initialInvestment, calculatedStatus>>
    /\ UNCHANGED <<localStrategies, remoteStrategies, newData, merged,
                   remerged, selfMerged>>
    /\ UNCHANGED uiVars

NextIncomplete == CallGetTradeStatsIncomplete

SpecIncomplete == InitIncomplete /\ [][NextIncomplete]_vars

(***************************************************************************)
(* The trade detail page showing one stored trade: the status effect runs  *)
(* after every render, and the user may submit the trade form.             *)
(***************************************************************************)
\* form submissions modelled
MaxEdits == 1
\* rewrites of the effect followed between two submissions
MaxSaves == 3

InitDetail ==
    /\ trade \in StoredTrades(DetailLogs)
    /\ loaded = trade
    /\ saved = <<>>
    /\ edits = 0
    /\ stats = <<>>
    /\ initialInvestment = 0
    /\ calculatedStatus = "none"
    /\ MergeIdle
    /\ AppIdle
    /\ pc = "effect"

\* one run of the effect; a rewrite makes the page render and the effect
\* run again
RunStatusEffect ==
    /\ pc \in {"effect", "settled"}
    /\ Len(saved) < MaxSaves
    /\ LET outcome == StatusRecalculation(trade)
       IN  /\ trade' = outcome.trade
           /\ saved' = IF outcome.saved THEN Append(saved, outcome.trade) ELSE saved
           /\ pc' = IF outcome.saved THEN "effect" ELSE "settled"
    /\ UNCHANGED <<loaded, edits, stats, initialInvestment, calculatedStatus>>
    /\ UNCHANGED <<mergeVars, appVars>>

SubmitTradeForm ==
    /\ pc = "settled"
    /\ edits < MaxEdits
    /\ \E f \in FormInputs :
          /\ validateForm(f)
          /\ LET fullTradeObject == handleSubmit(f, trade)
             IN  trade' = fullTradeObject /\ loaded' = fullTradeObject
    /\ saved' = <<>>
    /\ edits' = edits + 1
    /\ pc' = "effect"
    /\ UNCHANGED <<stats, initialInvestment, calculatedStatus>>
    /\ UNCHANGED <<mergeVars, appVars>>

NextDetail ==
    \/ RunStatusEffect
    \/ SubmitTradeForm

SpecDetail == InitDetail /\ [][NextDetail]_vars

(***************************************************************************)
(* The application between two renders: the sign-in callback completes, or *)
(* up to MaxIssued handlers of the current render are called; then the     *)
(* component renders with the collection last handed to setStrategies.     *)
(***************************************************************************)
InitApp ==
    /\ strategies \in Collections
    /\ nextStrategies = <<>>
    /\ issued = <<>>
    /\ previous = <<>>
    /\ MergeIdle
    /\ StatsIdle
    /\ DetailIdle
    /\ pc = "app"

\* the onAuthStateChanged callback for a signed-in user, after getDoc
SignInCompletes ==
    /\ pc = "app"
    /\ issued = <<>>
    /\ \E userDoc \in UserDocs :
          /\ nextStrategies' = SignInSets(strategies, userDoc)
          /\ issued' = <<IssuedCall("signIn", <<>>, 0, userDoc)>>
    /\ pc' = "synced"
    /\ UNCHANGED <<strategies, previous>>
    /\ UNCHANGED <<mergeVars, statsVars, detailVars>>

CallHandleSaveTrade ==
    /\ pc = "app"
    /\ Len(issued) < MaxIssued
    /\ \E tradeToSave \in Trade :
          /\ nextStrategies' = <<handleSaveTrade(strategies, tradeToSave)>>
          /\ issued' = Append(issued, IssuedCall("save", tradeToSave, 0, <<>>))
    /\ UNCHANGED <<strategies, previous, pc>>
    /\ UNCHANGED <<mergeVars, statsVars, detailVars>>

CallHandleMoveTrade ==
    /\ pc = "app"
    /\ Len(issued) < MaxIssued
    /\ \E tr \in StoredIn(strategies), targetStrategyId \in StrategyIds :
          /\ nextStrategies' =
                IF handleMoveTrade(strategies, tr, targetStrategyId) = <<>>
                THEN nextStrategies
                ELSE handleMoveTrade(strategies, tr, targetStrategyId)
          /\ issued' = Append(issued, IssuedCall("move", tr, targetStrategyId, <<>>))
    /\ UNCHANGED <<strategies, previous, pc>>
    /\ UNCHANGED <<mergeVars, statsVars, detailVars>>

\* the render that follows: the handlers now read the collection last set
Render ==
    /\ pc \in {"app", "synced"}
    /\ issued # <<>>
    /\ strategies' = IF nextStrategies = <<>> THEN strategies ELSE nextStrategies[1]
    /\ previous' = <<strategies>>
    /\ nextStrategies' = <<>>
    /\ pc' = "rendered"
    /\ UNCHANGED issued
    /\ UNCHANGED <<mergeVars, statsVars, detailVars>>

NextApp ==
    \/ SignInCompletes
    \/ CallHandleSaveTrade
    \/ CallHandleMoveTrade
    \/ Render

SpecApp == InitApp /\ [][NextApp]_vars

TypeOK ==
    /\ pc \in {"start", "checked", "merged", "done"}
    /\ newData \in BOOLEAN

(***************************************************************************)
(* Vocabulary of the properties.                                           *)
(***************************************************************************)
Merged == pc \in {"merged", "done"}

UniqueStrategyIds(coll) ==
    \A i, j \in DOMAIN coll : coll[i].id = coll[j].id => i = j

\* the positions of the strategies of coll with the given id
PositionsOf(coll, id) == { i \in DOMAIN coll : coll[i].id = id }

\* how many trades of the list carry the given id
TradeCount(trades, tid) ==
    Cardinality({ k \in DOMAIN trades : trades[k].id = tid })

\* no trade id occurs under two different strategies of coll
NoTradeUnderTwoStrategies(coll) ==
    \A i, j \in DOMAIN coll :
        coll[i].id # coll[j].id =>
            IdsOf(coll[i].trades) \cap IdsOf(coll[j].trades) = {}

CommonStrategyIds == IdsOf(localStrategies) \cap IdsOf(remoteStrategies)

(***************************************************************************)
(* C1: mergeStrategies is additive: with unique strategy ids on both       *)
(* sides, every local strategy is in the result under its id, holding      *)
(* every trade id it held locally, and for a strategy id present on both   *)
(* sides the merged trade list is at least as long as the local one.       *)
(***************************************************************************)
MergeIsAdditive ==
    (Merged /\ UniqueStrategyIds(localStrategies)
            /\ UniqueStrategyIds(remoteStrategies)) =>
        \A i \in DOMAIN localStrategies :
            /\ PositionsOf(merged, localStrategies[i].id) # {}
            /\ \A j \in PositionsOf(merged, localStrategies[i].id) :
                  /\ IdsOf(localStrategies[i].trades) \subseteq IdsOf(merged[j].trades)
                  /\ localStrategies[i].id \in CommonStrategyIds =>
                        Len(merged[j].trades) >= Len(localStrategies[i].trades)

\* a common strategy with local trades to which the merge added a remote trade
MergeIsAdditiveWitness ==
    /\ pc = "merged"
    /\ \E i \in DOMAIN localStrategies, j \in DOMAIN merged :
          /\ localStrategies[i].id \in CommonStrategyIds
          /\ merged[j].id = localStrategies[i].id
          /\ localStrategies[i].trades # <<>>
          /\ Len(merged[j].trades) > Len(localStrategies[i].trades)

(***************************************************************************)
(* C2: hasNewData is sound with respect to mergeStrategies: when the       *)
(* merge result holds a trade id that is no trade id of local, hasNewData  *)
(* returned true.                                                          *)
(***************************************************************************)
HasNewDataSound ==
    Merged =>
        (AllTradeIds(merged) \ AllTradeIds(localStrategies) # {} => newData)

\* the merge brought a new trade id into a strategy known locally, remote
\* having neither more strategies nor an unknown strategy
HasNewDataSoundWitness ==
    /\ pc = "merged"
    /\ AllTradeIds(merged) \ AllTradeIds(localStrategies) # {}
    /\ Len(remoteStrategies) <= Len(localStrategies)
    /\ IdsOf(remoteStrategies) \subseteq IdsOf(localStrategies)
    /\ newData

(***************************************************************************)
(* C3: when hasNewData returned false, mergeStrategies is a no-op: the     *)
(* result holds exactly the strategies of local, each with exactly its     *)
(* local trades (same multiset of trade ids), up to ordering.              *)
(***************************************************************************)
NoNewDataMergeIsNoOp ==
    (Merged /\ ~newData) =>
        /\ Len(merged) = Len(localStrategies)
        /\ IdsOf(merged) = IdsOf(localStrategies)
        /\ \A i \in DOMAIN localStrategies :
              \A j \in PositionsOf(merged, localStrategies[i].id) :
                  /\ Len(merged[j].trades) = Len(localStrategies[i].trades)
                  /\ \A tid \in TradeIds :
                        TradeCount(merged[j].trades, tid)
                          = TradeCount(localStrategies[i].trades, tid)

(***************************************************************************)
(* C4: after mergeStrategies every trade belongs to exactly one strategy:  *)
(* if no trade id occurs under two different strategies in local, and      *)
(* none does in remote, none does in the merged collection.                *)
(***************************************************************************)
MergeKeepsSingleOwner ==
    (Merged /\ NoTradeUnderTwoStrategies(localStrategies)
            /\ NoTradeUnderTwoStrategies(remoteStrategies)) =>
        NoTradeUnderTwoStrategies(merged)

(***************************************************************************)
(* C5: mergeStrategies is idempotent on equal inputs: with unique          *)
(* strategy ids, mergeStrategies(local, local) is local (same strategies,  *)
(* same order, same name, initialCapital and trade list).                  *)
(***************************************************************************)
MergeWithSelfIsIdentity ==
    (pc = "done" /\ UniqueStrategyIds(localStrategies)) =>
        /\ Len(selfMerged) = Len(localStrategies)
        /\ \A i \in DOMAIN localStrategies :
              /\ selfMerged[i].id = localStrategies[i].id
              /\ selfMerged[i].name = localStrategies[i].name
              /\ selfMerged[i].initialCapital = localStrategies[i].initialCapital
              /\ selfMerged[i].trades = localStrategies[i].trades

\* local merged with itself, local holding two strategies with trades
MergeWithSelfIsIdentityWitness ==
    /\ pc = "done"
    /\ Len(localStrategies) = MaxStrategies
    /\ \A i \in DOMAIN localStrategies : localStrategies[i].trades # <<>>
    /\ Len(selfMerged) = Len(localStrategies)

(***************************************************************************)
(* C6: re-applying the same remote is a no-op: with unique strategy ids    *)
(* on both sides, mergeStrategies(mergeStrategies(local, remote), remote)  *)
(* equals mergeStrategies(local, remote).                                  *)
(***************************************************************************)
RemergeIsNoOp ==
    (pc = "done" /\ UniqueStrategyIds(localStrategies)
                 /\ UniqueStrategyIds(remoteStrategies)) =>
        remerged = merged

\* the first merge changed something on both sides: its result is neither
\* local nor remote, and a trade was appended to a common strategy
RemergeIsNoOpWitness ==
    /\ pc = "done"
    /\ merged # localStrategies
    /\ merged # remoteStrategies
    /\ \E i \in DOMAIN localStrategies, j \in DOMAIN merged :
          /\ merged[j].id = localStrategies[i].id
          /\ localStrategies[i].id \in CommonStrategyIds
          /\ Len(merged[j].trades) > Len(localStrategies[i].trades)
    /\ remerged = merged

(***************************************************************************)
(* C7: local wins on conflict: for every strategy id present on both       *)
(* sides, the merged strategy carries the local name and initialCapital,   *)
(* its trade list starts with the local trades unchanged and in local      *)
(* order, every trade id present in both copies is kept in its local       *)
(* version only, and the trades appended after the local ones are exactly  *)
(* the remote trades whose id the local strategy does not hold.            *)
(***************************************************************************)
LocalWinsOnConflict ==
    Merged =>
        \A i \in DOMAIN localStrategies, r \in DOMAIN remoteStrategies :
            localStrategies[i].id = remoteStrategies[r].id =>
                \A j \in PositionsOf(merged, localStrategies[i].id) :
                    LET l == localStrategies[i]
                        rm == remoteStrategies[r]
                        m == merged[j]
                        n == Len(l.trades)
                    IN  /\ m.name = l.name
                        /\ m.initialCapital = l.initialCapital
                        /\ Len(m.trades) >= n
                        /\ \A k \in 1..n : m.trades[k] = l.trades[k]
                        /\ \A k \in (n + 1)..Len(m.trades) :
                              /\ m.trades[k] \in Range(rm.trades)
                              /\ m.trades[k].id \notin IdsOf(l.trades)
                        /\ \A k \in DOMAIN rm.trades :
                              rm.trades[k].id \notin IdsOf(l.trades) =>
                                 \E q \in (n + 1)..Len(m.trades) :
                                     m.trades[q] = rm.trades[k]

\* a strategy on both sides with different metadata, a trade edited
\* differently on both sides, and a remote trade that local does not hold
LocalWinsOnConflictWitness ==
    /\ pc = "merged"
    /\ \E i \in DOMAIN localStrategies, r \in DOMAIN remoteStrategies :
          /\ localStrategies[i].id = remoteStrategies[r].id
          /\ localStrategies[i].name # remoteStrategies[r].name
          /\ \E a \in DOMAIN localStrategies[i].trades,
                b \in DOMAIN remoteStrategies[r].trades :
                /\ localStrategies[i].trades[a].id = remoteStrategies[r].trades[b].id
                /\ localStrategies[i].trades[a] # remoteStrategies[r].trades[b]
          /\ IdsOf(remoteStrategies[r].trades) \ IdsOf(localStrategies[i].trades) # {}
          /\ \E j \in DOMAIN merged :
                /\ merged[j].id = localStrategies[i].id
                /\ Len(merged[j].trades) = Len(localStrategies[i].trades) + 1

(***************************************************************************)
(* C8: strategies that exist on one side only survive unchanged: a remote  *)
(* strategy whose id is absent from local is in the result exactly as in   *)
(* remote, a local strategy whose id is absent from remote exactly as in   *)
(* local, and the strategy ids of the result are the union of the two id   *)
(* sets, each id once.                                                     *)
(***************************************************************************)
OneSidedStrategiesSurvive ==
    Merged =>
        /\ \A r \in DOMAIN remoteStrategies :
              remoteStrategies[r].id \notin IdsOf(localStrategies) =>
                 \E j \in DOMAIN merged : merged[j] = remoteStrategies[r]
        /\ \A i \in DOMAIN localStrategies :
              localStrategies[i].id \notin IdsOf(remoteStrategies) =>
                 \E j \in DOMAIN merged : merged[j] = localStrategies[i]
        /\ IdsOf(merged) = IdsOf(localStrategies) \cup IdsOf(remoteStrategies)
        /\ UniqueStrategyIds(merged)

\* a remote-only and a local-only strategy, both holding trades, next to a
\* strategy present on both sides
OneSidedStrategiesSurviveWitness ==
    /\ pc = "merged"
    /\ CommonStrategyIds # {}
    /\ \E r \in DOMAIN remoteStrategies :
          /\ remoteStrategies[r].id \notin IdsOf(localStrategies)
          /\ remoteStrategies[r].trades # <<>>
    /\ \E i \in DOMAIN localStrategies :
          /\ localStrategies[i].id \notin IdsOf(remoteStrategies)
          /\ localStrategies[i].trades # <<>>
    /\ Len(merged) = Cardinality(IdsOf(localStrategies) \cup IdsOf(remoteStrategies))

(***************************************************************************)
(* C9: result ordering: the result lists first one entry per remote        *)
(* strategy, in remote's order, then the local strategies whose id is not  *)
(* in remote, in local's order.                                            *)
(***************************************************************************)
MergeResultOrdering ==
    Merged =>
        LET nr == Len(remoteStrategies)
            localOnlyPos == { i \in DOMAIN localStrategies :
                                localStrategies[i].id \notin IdsOf(remoteStrategies) }
        IN  /\ Len(merged) = nr + Cardinality(localOnlyPos)
            /\ \A r \in 1..nr : merged[r].id = remoteStrategies[r].id
            /\ \A k \in (nr + 1)..Len(merged) :
                  \E i \in localOnlyPos :
                      /\ merged[k].id = localStrategies[i].id
                      \* as many local-only strategies precede it in the
                      \* result as precede it in local
                      /\ k - nr - 1
                           = Cardinality({ i2 \in localOnlyPos : i2 < i })

\* a remote strategy followed by two local-only strategies whose local
\* order is not the order of their ids
MergeResultOrderingWitness ==
    /\ pc = "merged"
    /\ remoteStrategies # <<>>
    /\ Len(localStrategies) = 2
    /\ IdsOf(localStrategies) \cap IdsOf(remoteStrategies) = {}
    /\ localStrategies[1].id > localStrategies[2].id
    /\ Len(merged) = Len(remoteStrategies) + 2

(***************************************************************************)
(* C10: hasNewData returns true exactly when remote has more strategies    *)
(* than local, or some remote strategy id is absent from local, or some    *)
(* remote trade id is absent from the trade ids of all local strategies;   *)
(* a remote trade whose id exists locally under any strategy is not new.   *)
(***************************************************************************)
HasNewDataExact ==
    pc # "start" =>
        (newData <=>
            \/ Len(remoteStrategies) > Len(localStrategies)
            \/ \E r \in DOMAIN remoteStrategies :
                  \A i \in DOMAIN localStrategies :
                      localStrategies[i].id # remoteStrategies[r].id
            \/ \E r \in DOMAIN remoteStrategies :
                  \E k \in DOMAIN remoteStrategies[r].trades :
                      \A i \in DOMAIN localStrategies :
                          \A q \in DOMAIN localStrategies[i].trades :
                              localStrategies[i].trades[q].id
                                 # remoteStrategies[r].trades[k].id)

\* hasNewData returned false although remote holds a trade under a strategy
\* other than the one that holds it locally
HasNewDataExactWitness ==
    /\ pc = "checked"
    /\ ~newData
    /\ \E r \in DOMAIN remoteStrategies, i \in DOMAIN localStrategies :
          /\ remoteStrategies[r].id # localStrategies[i].id
          /\ IdsOf(remoteStrategies[r].trades) \cap IdsOf(localStrategies[i].trades) # {}

(***************************************************************************)
(* C11: hasNewData and mergeStrategies are total and defensive: a strategy *)
(* without a trades array is treated as having an empty trade list, and    *)
(* both functions return a normal result without raising an exception.     *)
(***************************************************************************)
MissingTradesTreatedAsEmpty ==
    /\ thrown = "none"
    /\ pc = "checked" => newData = hasNewData(localStrategies, remoteStrategies)
    /\ pc = "merged" =>
          /\ Len(merged) = Len(mergeStrategies(localStrategies, remoteStrategies))
          /\ \A i \in DOMAIN merged :
                /\ merged[i].id = mergeStrategies(localStrategies, remoteStrategies)[i].id
                /\ merged[i].trades
                     = mergeStrategies(localStrategies, remoteStrategies)[i].trades

(***************************************************************************)
(* Vocabulary of the properties of the stats engine.                       *)
(***************************************************************************)
StatsReturned == pc = "stats"

\* the quantity sold through itemised partial exits
PartialExitQty ==
    LET RECURSIVE Sold(_)
        Sold(k) == IF k = 0 THEN 0 ELSE trade.partialExits[k].quantity + Sold(k - 1)
    IN  Sold(Len(trade.partialExits))

\* the value of the itemised partial exits
PartialExitValue ==
    LET RECURSIVE Value(_)
        Value(k) ==
            IF k = 0 THEN 0
            ELSE trade.partialExits[k].price * trade.partialExits[k].quantity
                   + Value(k - 1)
    IN  Value(Len(trade.partialExits))

\* quantity and cost of the whole position, pyramids included
BoughtQty ==
    LET RECURSIVE Bought(_)
        Bought(k) == IF k = 0 THEN trade.quantity
                     ELSE trade.pyramids[k].quantity + Bought(k - 1)
    IN  Bought(Len(trade.pyramids))

InvestedValue ==
    LET RECURSIVE Cost(_)
        Cost(k) == IF k = 0 THEN trade.entryPrice * trade.quantity
                   ELSE trade.pyramids[k].price * trade.pyramids[k].quantity
                          + Cost(k - 1)
    IN  Cost(Len(trade.pyramids))

\* closed status, one exit price, no itemised exits
SingleExitPriceClose ==
    /\ trade.status # "open"
    /\ trade.exitPrice # <<>>
    /\ trade.exitPrice # <<0>>
    /\ trade.partialExits = <<>>

(***************************************************************************)
(* C12: in the stats returned by getTradeStats, currentHoldingsQty =       *)
(* totalBoughtQty - totalSoldQty for every trade, however it was closed.   *)
(***************************************************************************)
HoldingsIsBoughtMinusSold ==
    StatsReturned =>
        stats.currentHoldingsQty = stats.totalBoughtQty - stats.totalSoldQty

(***************************************************************************)
(* C13: getTradeStats reports isClosed exactly when the stored status is   *)
(* not open, or totalBoughtQty > 0 and the summed partial-exit quantity    *)
(* is at least totalBoughtQty.                                             *)
(***************************************************************************)
ClosedIffStatusOrSoldOut ==
    StatsReturned =>
        (stats.isClosed <=>
            \/ trade.status # "open"
            \/ (stats.totalBoughtQty > 0 /\ PartialExitQty >= stats.totalBoughtQty))

\* a trade stored as open whose partial exits sell the whole position
ClosedIffStatusOrSoldOutWitness ==
    /\ StatsReturned
    /\ trade.status = "open"
    /\ trade.pyramids # <<>>
    /\ BoughtQty > 0
    /\ PartialExitQty = BoughtQty
    /\ stats.isClosed

(***************************************************************************)
(* C14: full close via exitPrice: status not open, exitPrice set and       *)
(* non-zero, no partial exits: totalSoldQty = totalBoughtQty,              *)
(* totalProceeds = exitPrice * totalBoughtQty, isClosed, realizedPL =      *)
(* exitPrice * totalBoughtQty - totalInvested, pyramids included.          *)
(***************************************************************************)
FullCloseViaExitPrice ==
    (StatsReturned /\ SingleExitPriceClose) =>
        /\ stats.totalBoughtQty = BoughtQty
        /\ stats.totalInvested = InvestedValue
        /\ stats.totalSoldQty = BoughtQty
        /\ stats.totalProceeds = trade.exitPrice[1] * BoughtQty
        /\ stats.isClosed
        /\ stats.realizedPL = RInt(trade.exitPrice[1] * BoughtQty - InvestedValue)

\* a pyramided position closed at one exit price
FullCloseViaExitPriceWitness ==
    /\ StatsReturned
    /\ SingleExitPriceClose
    /\ trade.quantity > 0
    /\ trade.pyramids # <<>>
    /\ stats.totalSoldQty > trade.quantity

(***************************************************************************)
(* C15: realized P/L: while the trade is not closed, realizedPL =          *)
(* totalProceeds - avgEntryPrice * totalSoldQty; once closed, realizedPL = *)
(* totalProceeds - totalInvested, with totalInvested the cost of the       *)
(* entry and the pyramids and totalProceeds the summed partial-exit value  *)
(* (or the exitPrice override).                                            *)
(***************************************************************************)
RealizedPLOpenAndClosed ==
    StatsReturned =>
        /\ stats.totalInvested = InvestedValue
        /\ stats.totalProceeds =
              IF SingleExitPriceClose THEN trade.exitPrice[1] * BoughtQty
              ELSE PartialExitValue
        /\ ~stats.isClosed =>
              stats.realizedPL =
                 RSub(RInt(stats.totalProceeds),
                      RMul(stats.avgEntryPrice, RInt(stats.totalSoldQty)))
        /\ stats.isClosed =>
              stats.realizedPL = RInt(stats.totalProceeds - stats.totalInvested)

\* an open position, part of it sold at a profit or a loss
RealizedPLOpenAndClosedWitness ==
    /\ StatsReturned
    /\ ~stats.isClosed
    /\ stats.totalSoldQty > 0
    /\ stats.currentHoldingsQty > 0
    /\ stats.realizedPL # RZero
    /\ stats.realizedPL # RInt(stats.totalProceeds - stats.totalInvested)

(***************************************************************************)
(* C16: a trade with status open, no partial exits and no exitPrice is     *)
(* reported with isClosed = false, realizedPL = 0 and totalSoldQty = 0.    *)
(***************************************************************************)
UntouchedOpenTrade ==
    (StatsReturned /\ trade.status = "open" /\ trade.partialExits = <<>>
                   /\ trade.exitPrice = <<>>) =>
        /\ ~stats.isClosed
        /\ stats.realizedPL = RZero
        /\ stats.totalSoldQty = 0

\* such a trade, holding an entry and a pyramid
UntouchedOpenTradeWitness ==
    /\ StatsReturned
    /\ trade.status = "open"
    /\ trade.partialExits = <<>>
    /\ trade.exitPrice = <<>>
    /\ trade.quantity > 0
    /\ trade.entryPrice > 0
    /\ trade.pyramids # <<>>
    /\ ~stats.isClosed

(***************************************************************************)
(* C17: rMultiple = realizedPL / initialTotalRisk when the trade is closed *)
(* and initialTotalRisk > 0, and 0 in every other case.                    *)
(***************************************************************************)
RMultipleWhenClosedAtRisk ==
    StatsReturned =>
        IF stats.isClosed /\ RLess(RZero, stats.initialTotalRisk)
        THEN RMul(stats.rMultiple, stats.initialTotalRisk) = stats.realizedPL
        ELSE stats.rMultiple = RZero

\* a closed trade whose realized P/L is three times its initial risk
RMultipleWhenClosedAtRiskWitness ==
    /\ StatsReturned
    /\ stats.isClosed
    /\ RLess(RZero, stats.initialTotalRisk)
    /\ stats.realizedPL = RMul(RInt(3), stats.initialTotalRisk)
    /\ stats.rMultiple = RInt(3)

(***************************************************************************)
(* C18: totalRiskValue = currentHoldingsQty * (avgEntryPrice -             *)
(* effectiveStopLoss), the effective stop being the greatest trailing-stop *)
(* price that is > 0 if there is one, and initialSl otherwise.             *)
(***************************************************************************)
RiskUsesEffectiveStop ==
    StatsReturned =>
        LET ts == trade.trailingStops
            positive == { i \in DOMAIN ts : ts[i].price > 0 }
            RiskAt(stop) ==
                RMul(RInt(stats.currentHoldingsQty),
                     RSub(stats.avgEntryPrice, RInt(stop)))
        IN  /\ positive = {} => stats.totalRiskValue = RiskAt(trade.initialSl)
            /\ \A i \in positive :
                  (\A j \in positive : ts[j].price <= ts[i].price) =>
                      stats.totalRiskValue = RiskAt(ts[i].price)

\* a positive trailing stop below initialSl next to one of price 0: the
\* positive one is the stop used
RiskUsesEffectiveStopWitness ==
    /\ StatsReturned
    /\ Len(trade.trailingStops) = 2
    /\ \E i \in DOMAIN trade.trailingStops : trade.trailingStops[i].price = 0
    /\ \E i \in DOMAIN trade.trailingStops :
          /\ trade.trailingStops[i].price > 0
          /\ trade.trailingStops[i].price < trade.initialSl
          /\ stats.totalRiskValue =
                RMul(RInt(stats.currentHoldingsQty),
                     RSub(stats.avgEntryPrice, RInt(trade.trailingStops[i].price)))
    /\ stats.currentHoldingsQty > 0
    /\ stats.totalRiskValue #
          RMul(RInt(stats.currentHoldingsQty),
               RSub(stats.avgEntryPrice, RInt(trade.initialSl)))

(***************************************************************************)
(* C19: initial risk is independent of trailing stops: a trade that        *)
(* differs from this one only in trailingStops gets the same               *)
(* initialTotalRisk (= totalBoughtQty * (avgEntryPrice - initialSl)), the  *)
(* same realizedPL, isClosed and rMultiple.                                *)
(***************************************************************************)
InitialRiskIgnoresTrailingStops ==
    StatsReturned =>
        /\ stats.initialTotalRisk =
              RMul(RInt(stats.totalBoughtQty),
                   RSub(stats.avgEntryPrice, RInt(trade.initialSl)))
        /\ \A other \in SeqsUpTo(TrailingStop, MaxTrailingStops) :
              LET otherStats == getTradeStats([trade EXCEPT !.trailingStops = other])
              IN  /\ otherStats.initialTotalRisk = stats.initialTotalRisk
                  /\ otherStats.realizedPL = stats.realizedPL
                  /\ otherStats.isClosed = stats.isClosed
                  /\ otherStats.rMultiple = stats.rMultiple

\* a closed trade at risk whose trailing stop changes totalRiskValue
InitialRiskIgnoresTrailingStopsWitness ==
    /\ StatsReturned
    /\ trade.trailingStops # <<>>
    /\ stats.isClosed
    /\ stats.rMultiple # RZero
    /\ stats.totalRiskValue #
          getTradeStats([trade EXCEPT !.trailingStops = <<>>]).totalRiskValue

(***************************************************************************)
(* C20: calculateTradeStatus returns open whenever stats.isClosed is       *)
(* false; otherwise, with plPercent = realizedPL / initialInvestment * 100 *)
(* (0 when initialInvestment <= 0), breakeven iff -0.5 <= plPercent <=     *)
(* 0.5, win iff plPercent > 0.5, and loss otherwise.                       *)
(***************************************************************************)
StatusFromPlPercent ==
    pc = "status" =>
        LET \* plPercent * 2 * initialInvestment, for initialInvestment > 0
            scaled == RMul(stats.realizedPL, RInt(200))
            inBand == \/ initialInvestment <= 0
                      \/ /\ RLeq(RInt(-initialInvestment), scaled)
                         /\ RLeq(scaled, RInt(initialInvestment))
            above == initialInvestment > 0 /\ RLess(RInt(initialInvestment), scaled)
        IN  /\ ~stats.isClosed => calculatedStatus = "open"
            /\ stats.isClosed =>
                  /\ calculatedStatus \in {"breakeven", "win", "loss"}
                  /\ calculatedStatus = "breakeven" <=> inBand
                  /\ calculatedStatus = "win" <=> above
                  /\ calculatedStatus = "loss" <=> (~inBand /\ ~above)

\* a closed trade whose P/L is exactly +0.5 percent of the investment
StatusFromPlPercentWitness ==
    /\ pc = "status"
    /\ stats.isClosed
    /\ initialInvestment > 0
    /\ RMul(stats.realizedPL, RInt(200)) = RInt(initialInvestment)
    /\ calculatedStatus = "breakeven"

(***************************************************************************)
(* C26: no division by zero is performed.  Every number getTradeStats      *)
(* returns is finite; avgEntryPrice is 0 when nothing was bought,          *)
(* avgExitPrice is 0 when nothing counts as sold (also after the exitPrice *)
(* override on a trade that bought nothing), rMultiple is 0 when the       *)
(* initial risk is not positive, and the P/L percentage                    *)
(* calculateTradeStatus forms from the record is 0 when the initial        *)
(* investment is not positive.                                             *)
(***************************************************************************)
NoDivisionByZero ==
    StatsReturned =>
        /\ \A r \in { stats.avgEntryPrice, stats.avgExitPrice, stats.realizedPL,
                       stats.currentValue, stats.totalRiskValue,
                       stats.initialTotalRisk, stats.rMultiple } : RFinite(r)
        /\ stats.totalBoughtQty = 0 => stats.avgEntryPrice = RZero
        /\ stats.totalSoldQty = 0 => stats.avgExitPrice = RZero
        /\ RLeq(stats.initialTotalRisk, RZero) => stats.rMultiple = RZero
        /\ RFinite(PlPercentage(stats, InitialInvestment(trade)))
        /\ InitialInvestment(trade) <= 0 =>
               PlPercentage(stats, InitialInvestment(trade)) = RZero

\* a trade that bought nothing, closed by status with an exit price: the
\* override sets totalSoldQty to 0 and no quotient is formed
NoDivisionByZeroWitness ==
    /\ StatsReturned
    /\ trade.status # "open"
    /\ Truthy(trade.exitPrice)
    /\ trade.partialExits = <<>>
    /\ stats.totalBoughtQty = 0
    /\ stats.totalSoldQty = 0
    /\ stats.isClosed
    /\ stats.avgExitPrice = RZero
    /\ stats.rMultiple = RZero

(***************************************************************************)
(* C25: getTradeStats is total over incomplete trades.  For a trade whose  *)
(* pyramids, partialExits or trailingStops array or whose initialSl is     *)
(* absent, no exception is raised and the record returned is the one of    *)
(* the same trade with the absent arrays empty and the absent number 0.    *)
(***************************************************************************)
IncompleteTradeYieldsStats ==
    StatsReturned =>
        /\ thrown = "none"
        /\ stats = getTradeStats(trade)

(***************************************************************************)
(* Vocabulary of the properties of the trade detail page.                  *)
(***************************************************************************)
DetailShown == pc \in {"effect", "settled"}

\* the effect has run and has left the trade as it is
EffectSettled == pc = "settled"

\* the stored status and closeDate agree with the values derived from t
AgreesWithDerived(t) ==
    /\ t.status = calculateTradeStatus(getTradeStats(t), t.entryPrice * t.quantity)
    /\ getTradeStats(t).isClosed => t.closeDate # <<>>

\* t after the effect has run on it until it rewrites nothing
Reclassified(t) == StatusRecalculation(StatusRecalculation(t).trade).trade

(***************************************************************************)
(* C21: a manual override is honoured.  While the trade carries            *)
(* statusManuallySet = true the status effect rewrites nothing: whatever   *)
(* the execution log says, the trade (status, closeDate and flag included) *)
(* stays as loaded or as last submitted, and onSaveTrade is not called.    *)
(***************************************************************************)
ManualOverrideHonoured ==
    (DetailShown /\ loaded.statusManuallySet = "true") =>
        /\ trade = loaded
        /\ saved = <<>>

\* a manually set status that the execution log contradicts has been left
ManualOverrideHonouredWitness ==
    /\ EffectSettled
    /\ trade.statusManuallySet = "true"
    /\ trade.status = "win"
    /\ calculateTradeStatus(getTradeStats(trade), trade.entryPrice * trade.quantity)
           = "loss"
    /\ trade.closeDate = <<>>
    /\ trade = loaded

(***************************************************************************)
(* C22: self-healing status.  Once the effect has run on a trade that is   *)
(* not manually set, the stored status is the one calculateTradeStatus     *)
(* derives from the stored trade, a trade getTradeStats reports closed     *)
(* carries a closeDate (the stamp of the run if it had none), and a trade  *)
(* that already agreed with the derived values has not been rewritten.     *)
(***************************************************************************)
SelfHealingStatus ==
    (EffectSettled /\ trade.statusManuallySet # "true") =>
        /\ trade.status =
               calculateTradeStatus(getTradeStats(trade),
                                    trade.entryPrice * trade.quantity)
        /\ trade.status =
               calculateTradeStatus(getTradeStats(loaded),
                                    loaded.entryPrice * loaded.quantity)
        /\ getTradeStats(trade).isClosed =>
               trade.closeDate = IF loaded.closeDate = <<>>
                                 THEN <<"now">> ELSE loaded.closeDate
        /\ AgreesWithDerived(loaded) => (saved = <<>> /\ trade = loaded)

\* a trade stored as open that its partial exits have sold out has been
\* rewritten to a win and stamped
SelfHealingStatusWitness ==
    /\ EffectSettled
    /\ loaded.status = "open"
    /\ loaded.closeDate = <<>>
    /\ loaded.statusManuallySet = "undefined"
    /\ trade.status = "win"
    /\ trade.closeDate = <<"now">>
    /\ trade.statusManuallySet = "false"
    /\ Len(saved) = 1

(***************************************************************************)
(* C23: the closeDate is cleared when a trade becomes open again.  Once    *)
(* the effect has run on a trade that the form has submitted, that is not  *)
(* manually set and whose status is open, the trade carries no closeDate.  *)
(***************************************************************************)
OpenTradeHasNoCloseDate ==
    (/\ EffectSettled
     /\ edits > 0
     /\ trade.statusManuallySet # "true"
     /\ trade.status = "open") =>
        trade.closeDate = <<>>

(***************************************************************************)
(* C24: the stored status is a cache of a pure function of the execution   *)
(* log.  The status a trade that is not manually set holds once the effect *)
(* has run is the status the same trade would hold had it been stored with *)
(* any other status.                                                       *)
(***************************************************************************)
StatusIsFunctionOfLog ==
    (EffectSettled /\ trade.statusManuallySet # "true") =>
        \A other \in TradeStatus :
            Reclassified([loaded EXCEPT !.status = other]).status = trade.status

(***************************************************************************)
(* C29: the reclassification converges.  Between two submissions of the    *)
(* form the effect rewrites the trade at most once, and a further run on   *)
(* the rewritten trade calls onSaveTrade no more.                          *)
(***************************************************************************)
ReclassificationConverges ==
    DetailShown =>
        /\ Len(saved) <= 1
        /\ Len(saved) = 1 => ~StatusRecalculation(trade).saved

\* a submitted trade that the effect has rewritten once and then left
ReclassificationConvergesWitness ==
    /\ EffectSettled
    /\ edits = 1
    /\ Len(saved) = 1
    /\ trade # loaded
    /\ trade = saved[1]

\* the render after the handler calls has happened
Rendered == pc = "rendered"

\* the trade sits in the strategy its strategyId names
Holds(coll, tr) ==
    \E i \in DOMAIN coll : coll[i].id = tr.strategyId /\ tr \in Range(coll[i].trades)

\* number of trades in the collection
RECURSIVE TotalTrades(_)
TotalTrades(coll) ==
    IF coll = <<>> THEN 0 ELSE Len(Head(coll).trades) + TotalTrades(Tail(coll))

(***************************************************************************)
(* C27: sign-in keeps the local data.  When the sign-in callback has found *)
(* a user document that holds strategies, every strategy id and every      *)
(* trade id of the collection before sign-in is in the collection after.   *)
(***************************************************************************)
SignInPreservesLocal ==
    (/\ Rendered
     /\ issued[1].op = "signIn"
     /\ issued[1].userDoc.exists
     /\ issued[1].userDoc.strategies # <<>>) =>
        /\ IdsOf(previous[1]) \subseteq IdsOf(strategies)
        /\ AllTradeIds(previous[1]) \subseteq AllTradeIds(strategies)

(***************************************************************************)
(* C28: two saves issued before the component renders are both kept.  When *)
(* handleSaveTrade was called for two trades of different ids, each in an  *)
(* existing strategy, the collection after the render holds both trades.   *)
(***************************************************************************)
BothSavesKept ==
    (/\ Rendered
     /\ Len(issued) = 2
     /\ issued[1].op = "save"
     /\ issued[2].op = "save"
     /\ issued[1].trade.id # issued[2].trade.id
     /\ issued[1].trade.strategyId \in IdsOf(previous[1])
     /\ issued[2].trade.strategyId \in IdsOf(previous[1])) =>
        /\ Holds(strategies, issued[1].trade)
        /\ Holds(strategies, issued[2].trade)

(***************************************************************************)
(* C30: handleMoveTrade never loses a trade.  After a move of a stored     *)
(* trade to any target id the collection holds as many trades as before,   *)
(* and the trade's id is held by exactly one strategy, the one its         *)
(* strategyId names.                                                       *)
(***************************************************************************)
MoveKeepsTrade ==
    (/\ Rendered
     /\ Len(issued) = 1
     /\ issued[1].op = "move") =>
        /\ TotalTrades(strategies) = TotalTrades(previous[1])
        /\ \E i \in DOMAIN strategies :
              /\ TradeCount(strategies[i].trades, issued[1].trade.id) = 1
              /\ \A k \in DOMAIN strategies[i].trades :
                    strategies[i].trades[k].id = issued[1].trade.id =>
                        strategies[i].trades[k].strategyId = strategies[i].id
              /\ \A j \in DOMAIN strategies :
                    j # i => TradeCount(strategies[j].trades, issued[1].trade.id) = 0

=============================================================================
